---- MODULE Spec2Model ----
(***************************************************************************)
(* Model of the donuts pairing engine: the matching solver                 *)
(* (src/src/solver.py), the roster / identifier mapping                    *)
(* (src/src/history.py, src/slackbot/handlers.py) and the history file     *)
(* written by the Slack bot (src/slackbot/tracking.py).                    *)
(*                                                                         *)
(* Six specifications share the module:                                    *)
(*   SpecSolver    make_assignment applied to a registry and a history     *)
(*   SpecRegistry  parse_registry and the two _build_identifier_mapping    *)
(*   SpecStore     concurrent append_to_history calls on one history file  *)
(*   SpecHistory   parse_registry followed by parse_history, as in main.py *)
(*   SpecReaction  handle_reaction applied to reaction_added events        *)
(*   SpecMakedonuts  handle_makedonuts applied to a roster and a history   *)
(***************************************************************************)
EXTENDS Integers, Sequences, FiniteSets, TLC

(***************************************************************************)
(* Program constants                                                       *)
(***************************************************************************)
MIN_CSV_COLUMNS == 2

MAX_CSV_COLUMNS == 3

(***************************************************************************)
(* Bounds                                                                  *)
(***************************************************************************)
\* largest registry given to make_assignment
MaxN == 5

\* longest history list given to make_assignment
MaxHist == 1

\* a second family of histories: every pair of people has met once, except
\* at most MaxFresh pairs, each of which has never met or has met twice
MaxFresh == 2

\* most rows in a roster file
MaxRoster == 3

\* most calls of the tracking functions in one run
MaxCalls == 3

\* most reaction_added events in one run
MaxEvents == 2

\* most mentions in the message posted in the donut channel
MaxMentions == 2

\* most rows in the roster file of the parse_history pipeline
MaxPeople == 2

\* most rows in the history file read by parse_history
MaxHistRows == 2

VARIABLES
    \* ---- make_assignment (solver.py) ----
    registry,        \* dict[int, Person]: function from ids to Person
    history,         \* list[tuple[int, int]]
    meeting_counts,  \* local of make_assignment, solver.py:113
    graph,           \* local of make_assignment, solver.py:105-117
    matching,        \* local of make_assignment, solver.py:120
    unmatched_id,    \* local of make_assignment, solver.py:123-126
    outcome,         \* what the call did: not called, returned, raised
    \* ---- roster loading (history.py, handlers.py) ----
    roster,          \* the registry CSV file: whether it exists, and its rows
    loaded,          \* what parse_registry did
    identifier_to_id,\* what history._build_identifier_mapping did
    mapping,         \* what handlers._build_identifier_mapping did
    \* ---- the history file (tracking.py) ----
    history_file,    \* history.csv: whether it exists, and its rows
    pc,              \* where each handler thread is in append_to_history
    call,            \* the arguments of each thread's call
    rows,            \* the local list rows of each thread's call
    recorded,        \* the rows of the calls that returned, in that order
    calls,           \* number of calls of tracking functions started
    last,            \* how the most recently finished tracking call ended
    serial,          \* so far every append ran alone and returned
    \* ---- reaction events (handlers.py) ----
    message,         \* the message posted in the donut channel
    thread_reply,    \* the bot's reply in the thread of that message
    pairings,        \* the lines of the pairings message, if one was posted
    confirmed,       \* timestamps of the messages whose pairs were recorded
    events,          \* number of reaction_added events handled
    \* ---- history loading (history.py, main.py) ----
    history_csv,     \* the history CSV file read by parse_history
    past_meetings,   \* what parse_history did
    \* ---- the /makedonuts command (handlers.py) ----
    response         \* what the command sent: nothing yet, the pairings
                     \* message, or the error reply

solverVars == <<registry, history, meeting_counts, graph, matching,
                unmatched_id, outcome>>

registryVars == <<roster, loaded, identifier_to_id, mapping>>

storeVars == <<history_file, pc, call, rows, recorded, calls, last, serial>>

reactionVars == <<message, thread_reply, pairings, confirmed, events>>

historyVars == <<history_csv, past_meetings>>

commandVars == <<response>>

None == "None"

(***************************************************************************)
(* Small helpers                                                           *)
(***************************************************************************)
RECURSIVE SumOver(_, _)
SumOver(S, f) ==
    IF S = {} THEN 0
    ELSE LET x == CHOOSE y \in S : TRUE
         IN f[x] + SumOver(S \ {x}, f)

SetMin(S) == CHOOSE x \in S : \A y \in S : x <= y

SeqsUpTo(S, k) == UNION {[1..m -> S] : m \in 0..k}

Range(s) == {s[i] : i \in DOMAIN s}

\* the pairs of a set as a list, in increasing order
PairLess(p, q) == p[1] < q[1] \/ (p[1] = q[1] /\ p[2] < q[2])

RECURSIVE ListOfPairs(_)
ListOfPairs(S) ==
    IF S = {} THEN <<>>
    ELSE LET p == CHOOSE x \in S : \A y \in S \ {x} : PairLess(x, y)
         IN  <<p>> \o ListOfPairs(S \ {p})

(***************************************************************************)
(* Person and registry (history.py:18-23).  A Person is a (name, email)    *)
(* record; the i-th person of a solver registry has a name and an email    *)
(* of its own, written as tagged values.                                   *)
(***************************************************************************)
Person(i) == [name |-> <<"name", i>>, email |-> <<"email", i>>]

RegistryOfSize(n) == [i \in 0..(n - 1) |-> Person(i)]

(***************************************************************************)
(* solver.py:12-40  meeting counts                                         *)
(***************************************************************************)
\* tuple(sorted(pair))
SortedPairAsGiven(pair) == pair

SortedPair(pair) ==
    IF pair[1] <= pair[2] THEN <<pair[1], pair[2]>> ELSE <<pair[2], pair[1]>>

\* Counter(normalized): only the pairs that occur are keys
get_past_meeting_counts(h) ==
    LET normalized == [i \in DOMAIN h |-> SortedPair(h[i])]
    IN  [p \in Range(normalized) |->
            Cardinality({i \in DOMAIN h : normalized[i] = p})]

\* meeting_counts.get(normalized, 0)
_get_past_meetings_count(pair, mc) ==
    IF SortedPair(pair) \in DOMAIN mc THEN mc[SortedPair(pair)] ELSE 0

(***************************************************************************)
(* solver.py:104-117  the weighted graph.  An edge is kept as a sorted     *)
(* pair; add_edge also creates the end points, and an edge (i, i) coming   *)
(* from a history entry that names one person twice is a self-loop.        *)
(***************************************************************************)
Combinations2(nodes) == {<<u, v>> \in nodes \X nodes : u < v}

EdgeWeightNotNegated(count) == count

EdgeWeightIgnoringCount(count) == 0

\* weight=-count, solver.py:117
EdgeWeight(count) == -count

BuildGraph(reg, mc) ==
    LET nodes == DOMAIN reg \cup UNION {{p[1], p[2]} : p \in DOMAIN mc}
        edges == Combinations2(DOMAIN reg) \cup DOMAIN mc
    IN  [nodes  |-> nodes,
         weight |-> [e \in edges |->
                        IF e \in DOMAIN mc THEN EdgeWeight(mc[e]) ELSE 0]]

(***************************************************************************)
(* solver.py:120  nx.max_weight_matching(graph, maxcardinality=True).      *)
(* The library returns some matching of maximum cardinality that has the   *)
(* greatest total weight among the matchings of that cardinality; which    *)
(* of several optimal matchings it returns, and which way round each pair  *)
(* is reported, is not fixed by its contract.  Self-loops are never        *)
(* matched.                                                                *)
(***************************************************************************)
RECURSIVE MatchingsOf(_, _)
MatchingsOf(S, E) ==
    IF S = {} THEN {{}}
    ELSE LET u == SetMin(S)
             rest == S \ {u}
         IN  MatchingsOf(rest, E) \cup
             UNION {{m \cup {<<u, v>>} : m \in MatchingsOf(rest \ {v}, E)} :
                        v \in {w \in rest : <<u, w>> \in E}}

MatchingWeight(m, g) == SumOver(m, g.weight)

MaxWeightMatchingsOfAnyCardinality(g) ==
    LET all == MatchingsOf(g.nodes, DOMAIN g.weight)
    IN  {m \in all :
            \A o \in all : MatchingWeight(o, g) <= MatchingWeight(m, g)}

MaxWeightMatchings(g) ==
    LET all     == MatchingsOf(g.nodes, DOMAIN g.weight)
        maxCard == CHOOSE k \in 0..Cardinality(g.nodes) :
                       /\ \E m \in all : Cardinality(m) = k
                       /\ \A m \in all : Cardinality(m) <= k
        full    == {m \in all : Cardinality(m) = maxCard}
    IN  {m \in full :
            \A o \in full : MatchingWeight(o, g) <= MatchingWeight(m, g)}

\* the pairs of a matching, each reported one way round or the other
Orientations(m) ==
    {{IF f[e] THEN e ELSE <<e[2], e[1]>> : e \in m} : f \in [m -> BOOLEAN]}

(***************************************************************************)
(* solver.py:122-126  the unmatched person                                 *)
(***************************************************************************)
HasUnmatchedWhenEven(reg) == Cardinality(DOMAIN reg) % 2 = 0

\* len(registry) % 2 == 1
HasUnmatched(reg) == Cardinality(DOMAIN reg) % 2 = 1

MatchedIds(m) == {p[1] : p \in m} \cup {p[2] : p \in m}

(***************************************************************************)
(* solver.py:43-83  _form_triplet_groups                                   *)
(***************************************************************************)
TripletCostWithoutPair(pair, unmatched, mc) ==
      _get_past_meetings_count(<<unmatched, pair[1]>>, mc)
    + _get_past_meetings_count(<<unmatched, pair[2]>>, mc)

\* the key of min(), solver.py:66-70
TripletCost(pair, unmatched, mc) ==
      _get_past_meetings_count(pair, mc)
    + _get_past_meetings_count(<<unmatched, pair[1]>>, mc)
    + _get_past_meetings_count(<<unmatched, pair[2]>>, mc)

\* min(matching, key=...): the first minimal pair in the iteration order of
\* the set, so any pair of minimal key
MinPairs(m, unmatched, mc) ==
    {p \in m : \A q \in m :
        TripletCost(p, unmatched, mc) <= TripletCost(q, unmatched, mc)}

GroupsDroppingUnmatched(m, unmatched, min_pair, reg) ==
    {<<reg[pair[1]], reg[pair[2]]>> : pair \in m}

GroupsTripletEverywhere(m, unmatched, min_pair, reg) ==
    {<<reg[pair[1]], reg[pair[2]], reg[unmatched]>> : pair \in m}

\* the loop of solver.py:74-83; the list is kept as the set of its groups
\* (the pairs of a matching are distinct, so no group repeats)
TripletGroups(m, unmatched, min_pair, reg) ==
    {IF pair = min_pair
        THEN <<reg[pair[1]], reg[pair[2]], reg[unmatched]>>
        ELSE <<reg[pair[1]], reg[pair[2]]>> : pair \in m}

\* solver.py:135
PairGroups(m, reg) == {<<reg[pair[1]], reg[pair[2]]>> : pair \in m}

(***************************************************************************)
(* solver.py:86-137  make_assignment                                       *)
(***************************************************************************)
NotCalled == [kind |-> "not_called"]

Returned(groups) == [kind |-> "returned", groups |-> groups]

\* exc: the exception class; matched: whether max_weight_matching had
\* already run when it was raised
Raised(exc, matched) == [kind |-> "raised", exc |-> exc, matched |-> matched]

\* the body of make_assignment, for the arguments a caller gives it
Assignment(registry_, history_) ==
    LET mc == get_past_meeting_counts(history_)
        g  == BuildGraph(registry_, mc)
    IN
    /\ meeting_counts' = mc
    /\ graph' = g
    /\ \E opt \in MaxWeightMatchings(g) : \E m \in Orientations(opt) :
         /\ matching' = m
         /\ IF HasUnmatched(registry_)
            THEN LET free == DOMAIN registry_ \ MatchedIds(m)
                 IN  IF free = {}
                     THEN \* set().pop()
                          /\ unmatched_id' = None
                          /\ outcome' = Raised("KeyError", TRUE)
                     ELSE \E u \in free :
                          /\ unmatched_id' = u
                          /\ IF m = {}
                             THEN \* min() of an empty set
                                  outcome' = Raised("ValueError", TRUE)
                             ELSE \E mp \in MinPairs(m, u, mc) :
                                  outcome' = Returned(
                                      TripletGroups(m, u, mp, registry_))
            ELSE /\ unmatched_id' = None
                 /\ outcome' = Returned(PairGroups(m, registry_))

make_assignment ==
    /\ outcome = NotCalled
    /\ Assignment(registry, history)
    /\ UNCHANGED <<registry, history>>

\* the histories parse_history can return for a registry of n people
\* (history.py:140-143: both ids are keys of the registry, and the two may be
\* the same id): every short list, and the lists in which all but a few
\* pairs have met once and each of the few has never met or has met twice,
\* recorded once as (u, v) and once as (v, u)
ShortHistories(n) == SeqsUpTo((0..(n - 1)) \X (0..(n - 1)), MaxHist)

Flipped(list) == [i \in DOMAIN list |-> <<list[i][2], list[i][1]>>]

DenseHistories(n) ==
    LET pairs == Combinations2(0..(n - 1))
        few   == {f \in SUBSET pairs : Cardinality(f) <= MaxFresh}
    IN  UNION {{ListOfPairs(pairs \ f) \o ListOfPairs(twice)
                    \o Flipped(ListOfPairs(twice)) :
                        twice \in SUBSET f} : f \in few}

(***************************************************************************)
(* history.py:26-42  _parse_csv_row                                        *)
(***************************************************************************)
\* not (len(row) < MIN_CSV_COLUMNS or len(row) > MAX_CSV_COLUMNS)
AcceptsRow(row) == ~(Len(row) < MIN_CSV_COLUMNS \/ Len(row) > MAX_CSV_COLUMNS)

\* (person1, person2, slack_ts) of an accepted row
_parse_csv_row(row) ==
    [person1  |-> row[1],
     person2  |-> row[2],
     slack_ts |-> IF Len(row) = MAX_CSV_COLUMNS THEN row[3] ELSE None]

(***************************************************************************)
(* history.py:45-72  parse_registry                                        *)
(***************************************************************************)
NewPerson(name, email) == [name |-> name, email |-> email]

NextPersonIdByRowNumber(reg, k) == k - 1

\* person_id = len(registry), history.py:66, when row k is accepted
NextPersonId(reg, k) == Cardinality(DOMAIN reg)

\* the loop of history.py:61-68, from row k on
RECURSIVE LoadRows(_, _, _)
LoadRows(reader, k, reg) ==
    IF k > Len(reader) THEN reg
    ELSE IF ~AcceptsRow(reader[k]) THEN LoadRows(reader, k + 1, reg)
    ELSE LET parsed    == _parse_csv_row(reader[k])
             person_id == NextPersonId(reg, k)
         IN  LoadRows(reader, k + 1,
                 [i \in DOMAIN reg \cup {person_id} |->
                     IF i = person_id
                         THEN NewPerson(parsed.person1, parsed.person2)
                         ELSE reg[i]])

Loaded(reg) == [kind |-> "returned", registry |-> reg]

Mapped(m) == [kind |-> "returned", mapping |-> m]

Failed(exc) == [kind |-> "raised", exc |-> exc]

parse_registry ==
    /\ loaded = NotCalled
    /\ loaded' = IF ~roster.exists
                    THEN Failed("FileNotFoundError")
                    ELSE Loaded(LoadRows(roster.rows, 1, <<>>))
    /\ UNCHANGED <<roster, identifier_to_id, mapping>>

(***************************************************************************)
(* The identifiers of a registry in the order both mapping builders visit  *)
(* them: person by person in id order, name before email.                  *)
(***************************************************************************)
IdentifierList(reg) ==
    [k \in 1..(2 * Cardinality(DOMAIN reg)) |->
        LET person_id == (k - 1) \div 2
        IN  [person_id  |-> person_id,
             identifier |-> IF k % 2 = 1 THEN reg[person_id].name
                                         ELSE reg[person_id].email]]

\* m with m[identifier] = person_id
Bind(m, identifier, person_id) ==
    [s \in DOMAIN m \cup {identifier} |->
        IF s = identifier THEN person_id ELSE m[s]]

(***************************************************************************)
(* history.py:80-102  _build_identifier_mapping                            *)
(***************************************************************************)
RECURSIVE StrictMapping(_, _, _)
StrictMapping(ids, k, m) ==
    IF k > Len(ids) THEN Mapped(m)
    ELSE IF ids[k].identifier \in DOMAIN m THEN Failed("KeyError")
    ELSE StrictMapping(ids, k + 1, Bind(m, ids[k].identifier, ids[k].person_id))

_build_identifier_mapping ==
    /\ loaded.kind = "returned"
    /\ identifier_to_id = NotCalled
    /\ identifier_to_id' = StrictMapping(IdentifierList(loaded.registry), 1, <<>>)
    /\ UNCHANGED <<roster, loaded, mapping>>

(***************************************************************************)
(* history.py:105-147  parse_history, called by main.py:42 with the        *)
(* registry parse_registry returned.  The mapping is built before the      *)
(* file is opened, outside the try block.                                  *)
(***************************************************************************)
Parsed(pairs) == [kind |-> "returned", pairs |-> pairs]

AppendMeetingInFront(list, pair) == <<pair>> \o list

\* past_meetings.append((id1, id2)), history.py:143
AppendMeeting(list, pair) == Append(list, pair)

\* the loop of history.py:125-143, from row k on
RECURSIVE ResolveRows(_, _, _, _)
ResolveRows(reader, k, m, list) ==
    IF k > Len(reader) THEN list
    ELSE IF ~AcceptsRow(reader[k]) THEN ResolveRows(reader, k + 1, m, list)
    ELSE LET parsed == _parse_csv_row(reader[k])
         IN  IF parsed.person1 \notin DOMAIN m
                 THEN ResolveRows(reader, k + 1, m, list)
             ELSE IF parsed.person2 \notin DOMAIN m
                 THEN ResolveRows(reader, k + 1, m, list)
             ELSE ResolveRows(reader, k + 1, m,
                      AppendMeeting(list, <<m[parsed.person1],
                                            m[parsed.person2]>>))

parse_history ==
    /\ loaded.kind = "returned"
    /\ past_meetings = NotCalled
    /\ LET built == StrictMapping(IdentifierList(loaded.registry), 1, <<>>)
       IN  past_meetings' =
               IF built.kind = "raised" THEN built
               ELSE IF ~history_csv.exists THEN Failed("FileNotFoundError")
               ELSE Parsed(ResolveRows(history_csv.rows, 1,
                                       built.mapping, <<>>))
    /\ UNCHANGED <<roster, loaded, identifier_to_id, mapping, history_csv>>

(***************************************************************************)
(* handlers.py:292-298  _build_identifier_mapping of the Slack handlers    *)
(***************************************************************************)
RECURSIVE OverwritingMapping(_, _, _)
OverwritingMapping(ids, k, m) ==
    IF k > Len(ids) THEN Mapped(m)
    ELSE OverwritingMapping(ids, k + 1,
             Bind(m, ids[k].identifier, ids[k].person_id))

handlers_build_identifier_mapping ==
    /\ loaded.kind = "returned"
    /\ mapping = NotCalled
    /\ mapping' = OverwritingMapping(IdentifierList(loaded.registry), 1, <<>>)
    /\ UNCHANGED <<roster, loaded, identifier_to_id>>

(***************************************************************************)
(* Roster files: rows as csv.reader yields them.  Every row of two fields, *)
(* and rows of no, one, three and four fields.                             *)
(***************************************************************************)
Fields == {"", "a", "b", "c"}

RosterRows ==
    [1..2 -> Fields] \cup
    {<<>>, <<"a">>, <<"a", "b", "t">>, <<"a", "b", "t", "t">>}

MissingFile == [exists |-> FALSE, rows |-> <<>>]

FileOf(content) == [exists |-> TRUE, rows |-> content]

\* the files of the parse_history pipeline: rosters of a few people, two
\* of them with identifiers of their own, one sharing a name with the
\* first, one whose name is also its email; history rows naming people by
\* the two names or by a string no roster contains, rows naming them by
\* email, and rows of one, three and four fields
PeopleRows == {<<"a", "b">>, <<"c", "d">>, <<"a", "c">>, <<"b", "b">>}

HistoryRows ==
    [1..2 -> {"a", "c", "z"}] \cup
    {<<"b", "d">>, <<"d", "a">>,
     <<"a">>, <<"a", "d", "t">>, <<"c", "b", "t", "t">>}

HistoryIdle ==
    /\ history_csv = MissingFile
    /\ past_meetings = NotCalled

RegistryIdle ==
    /\ roster = MissingFile
    /\ loaded = NotCalled
    /\ identifier_to_id = NotCalled
    /\ mapping = NotCalled

SolverIdle ==
    /\ registry = <<>>
    /\ history = <<>>
    /\ meeting_counts = <<>>
    /\ graph = [nodes |-> {}, weight |-> <<>>]
    /\ matching = {}
    /\ unmatched_id = None
    /\ outcome = NotCalled

(***************************************************************************)
(* tracking.py  the history file.  slack_bolt runs each event listener on  *)
(* a worker thread, so several handle_reaction calls (handlers.py:142-245) *)
(* can be inside append_to_history at once; each opens the file itself.    *)
(* The file is kept as the list of rows csv.reader yields; the names have  *)
(* the same length, so rows with the same number of fields take the same   *)
(* number of bytes.                                                        *)
(***************************************************************************)
Procs == {1, 2}

Names == {"ann", "bob"}

Tokens == {None, "t1"}

NoCall == [person1 |-> "", person2 |-> "", slack_ts |-> None]

\* how a call of a tracking function ended: whether reading or writing the
\* file failed during it, and whether it returned a value or raised
Ended(op, io_failed, kind, value) ==
    [op |-> op, io_failed |-> io_failed, kind |-> kind, value |-> value]

NoneEnded == Ended("none", FALSE, "none", None)

\* tracking.py:67-83  get_history_size
get_history_size(f) == IF ~f.exists THEN 0 ELSE Len(f.rows)

history_contains_ts_in_second_field(f, ts) ==
    IF ~f.exists THEN FALSE
    ELSE \E i \in DOMAIN f.rows : Len(f.rows[i]) >= 3 /\ f.rows[i][2] = ts

\* tracking.py:7-26  history_contains_ts
history_contains_ts(f, ts) ==
    IF ~f.exists THEN FALSE
    ELSE \E i \in DOMAIN f.rows : Len(f.rows[i]) >= 3 /\ f.rows[i][3] = ts

\* tracking.py:51-53  the row to append; "if slack_ts" is false for None
\* and for the empty string
NewRow(c) ==
    IF c.slack_ts \notin {None, ""}
        THEN <<c.person1, c.person2, c.slack_ts>>
        ELSE <<c.person1, c.person2>>

\* what a file holds after `data` is written from its start by a writer
\* whose open() truncated it earlier: the data, followed by whatever
\* another writer has put beyond the data's end in the meantime
WrittenOverNewRowOnly(old, data) == <<data[Len(data)]>>

WrittenOver(old, data) ==
    IF Len(old) <= Len(data) THEN data
    ELSE data \o SubSeq(old, Len(data) + 1, Len(old))

\* a handler thread enters append_to_history(person1, person2, path, ts)
append_call(p) ==
    /\ pc[p] = "idle"
    /\ calls < MaxCalls
    /\ \E person1 \in Names, person2 \in Names, slack_ts \in Tokens :
         call' = [call EXCEPT ![p] = [person1  |-> person1,
                                      person2  |-> person2,
                                      slack_ts |-> slack_ts]]
    /\ pc' = [pc EXCEPT ![p] = "read"]
    /\ calls' = calls + 1
    /\ serial' = (serial /\ \A q \in Procs \ {p} : pc[q] = "idle")
    /\ UNCHANGED <<history_file, rows, recorded, last>>

\* tracking.py:43-54  read the existing rows and append the new one
append_read(p) ==
    /\ pc[p] = "read"
    /\ rows' = [rows EXCEPT ![p] =
                   (IF history_file.exists THEN history_file.rows ELSE <<>>)
                       \o <<NewRow(call[p])>>]
    /\ pc' = [pc EXCEPT ![p] = "open"]
    /\ UNCHANGED <<history_file, call, recorded, calls, last, serial>>

\* tracking.py:57  open(path, "w") creates or truncates the file
append_open(p) ==
    /\ pc[p] = "open"
    /\ history_file' = FileOf(<<>>)
    /\ pc' = [pc EXCEPT ![p] = "write"]
    /\ UNCHANGED <<call, rows, recorded, calls, last, serial>>

\* tracking.py:58-61  writerows, and the flush when the with block closes
\* the file; the call returns
append_write(p) ==
    /\ pc[p] = "write"
    /\ history_file' = FileOf(WrittenOver(history_file.rows, rows[p]))
    /\ recorded' = Append(recorded, NewRow(call[p]))
    /\ pc' = [pc EXCEPT ![p] = "idle"]
    /\ call' = [call EXCEPT ![p] = NoCall]
    /\ rows' = [rows EXCEPT ![p] = <<>>]
    /\ last' = Ended("append_to_history", FALSE, "returned", None)
    /\ UNCHANGED <<calls, serial>>

\* tracking.py:62-64  an OSError while the file is read, opened for writing
\* or written is printed and raised again.  The failing step changes
\* nothing in the file: after a failed write the file is as open() left
\* it, truncated.
append_fail(p) ==
    /\ pc[p] \in {"read", "open", "write"}
    /\ UNCHANGED history_file
    /\ pc' = [pc EXCEPT ![p] = "idle"]
    /\ call' = [call EXCEPT ![p] = NoCall]
    /\ rows' = [rows EXCEPT ![p] = <<>>]
    /\ last' = Ended("append_to_history", TRUE, "raised", "OSError")
    /\ serial' = FALSE
    /\ UNCHANGED <<recorded, calls>>

\* tracking.py:67-86  a thread calls get_history_size(path); an error while
\* the file is read is caught, printed, and 0 is returned
get_history_size_call(p) ==
    /\ pc[p] = "idle"
    /\ calls < MaxCalls
    /\ calls' = calls + 1
    /\ \/ last' = Ended("get_history_size", FALSE, "returned",
                        get_history_size(history_file))
       \/ /\ history_file.exists
          /\ last' = Ended("get_history_size", TRUE, "returned", 0)
    /\ UNCHANGED <<history_file, pc, call, rows, recorded, serial>>

\* tracking.py:7-26  a thread calls history_contains_ts(path, ts); nothing
\* catches an error raised while the file is read
history_contains_ts_call(p) ==
    /\ pc[p] = "idle"
    /\ calls < MaxCalls
    /\ calls' = calls + 1
    /\ \E ts \in Tokens \ {None} :
         \/ last' = Ended("history_contains_ts", FALSE, "returned",
                          history_contains_ts(history_file, ts))
         \/ /\ history_file.exists
            /\ last' = Ended("history_contains_ts", TRUE, "raised", "OSError")
    /\ UNCHANGED <<history_file, pc, call, rows, recorded, serial>>

(***************************************************************************)
(* handlers.py:142-277  handle_reaction.  The Slack workspace is outside   *)
(* the program; it is a user directory (users.info), one message posted in *)
(* the donut channel, the bot's reply in that message's thread, and the    *)
(* pairings message posted by /makedonuts.                                 *)
(***************************************************************************)
\* config.py:15
DONUT_CHAT_CHANNEL == "donut-chat"

\* "if not x" for a string or None
Falsy(x) == x \in {None, ""}

\* the roster at config.REGISTRY_PATH
TeamRoster ==
    <<(<<"Ann", "ann@ucla.edu">>), (<<"Bob", "bob@ucla.edu">>),
      (<<"Cat", "cat@ucla.edu">>), (<<"Dan", "dan@ucla.edu">>)>>

\* what users.info knows: U1's email is her roster email, U2's is the
\* g.ucla.edu form of his and his real name is not his roster name, U3
\* has no email and a real name in lower case, U4 is not in the roster;
\* users.info fails for every other id
Directory ==
    [u \in {"U1", "U2", "U3", "U4"} |->
        CASE u = "U1" -> [email |-> "ann@ucla.edu", real_name |-> "Ann"]
          [] u = "U2" -> [email |-> "bob@g.ucla.edu", real_name |-> "Robert"]
          [] u = "U3" -> [email |-> None, real_name |-> "cat"]
          [] u = "U4" -> [email |-> "eve@ucla.edu", real_name |-> "Eve"]]

\* the ids a message can mention, <@U9> being no user of the workspace
MentionIds == {"U1", "U2", "U3", "U4", "U9"}

\* str.lower() on the strings of this workspace
Lower(str) ==
    CASE str = "Ann" -> "ann"
      [] str = "Bob" -> "bob"
      [] str = "Cat" -> "cat"
      [] str = "Dan" -> "dan"
      [] str = "Eve" -> "eve"
      [] str = "Robert" -> "robert"
      [] OTHER -> str

\* handlers.py:353-359  lower(), then @g.ucla.edu replaced by @ucla.edu
_normalize_email(email) ==
    IF Falsy(email) THEN email
    ELSE LET normalized == Lower(email)
         IN  CASE normalized = "bob@g.ucla.edu" -> "bob@ucla.edu"
               [] OTHER -> normalized

\* slack_client.py:52-67
get_user_email(user_id) ==
    IF user_id \in DOMAIN Directory THEN Directory[user_id].email ELSE None

\* handlers.py:382-405  the person a mentioned user is matched to: by
\* normalised email against every key of the mapping in insertion order,
\* then by lower-cased real name; ids is the insertion order of the keys
NoPerson == -1

FirstKeyIn(ids, m, matches) ==
    IF matches = {} THEN NoPerson
    ELSE m[ids[SetMin(matches)].identifier]

MatchedPerson(user_info, ids, m) ==
    LET by_email ==
            IF Falsy(user_info.email) THEN NoPerson
            ELSE LET normalized_email == _normalize_email(user_info.email)
                 IN  FirstKeyIn(ids, m,
                        {k \in DOMAIN ids :
                            \/ Lower(ids[k].identifier) = normalized_email
                            \/ _normalize_email(ids[k].identifier)
                                   = normalized_email})
    IN  IF by_email # NoPerson THEN by_email
        ELSE IF Falsy(user_info.real_name) THEN NoPerson
        ELSE FirstKeyIn(ids, m,
                {k \in DOMAIN ids :
                    Lower(ids[k].identifier) = Lower(user_info.real_name)})

\* handlers.py:362-413  the loop over the mentions, from mention k on
RECURSIVE _get_valid_mentioned_names(_, _, _, _)
_get_valid_mentioned_names(mentions, k, reg, m) ==
    IF k > Len(mentions) THEN <<>>
    ELSE IF mentions[k] \notin DOMAIN Directory
        THEN _get_valid_mentioned_names(mentions, k + 1, reg, m)
    ELSE LET person_id == MatchedPerson(Directory[mentions[k]],
                                        IdentifierList(reg), m)
         IN  IF person_id = NoPerson
                 THEN _get_valid_mentioned_names(mentions, k + 1, reg, m)
                 ELSE <<reg[person_id].name>>
                          \o _get_valid_mentioned_names(mentions, k + 1, reg, m)

\* handlers.py:280-289  list(combinations(people, 2)): the pairs of
\* positions i < j, in lexicographic order
_generate_all_pairs(people) ==
    LET positions == ListOfPairs(Combinations2(DOMAIN people))
    IN  [k \in DOMAIN positions |->
            <<people[positions[k][1]], people[positions[k][2]]>>]

\* the message is posted at "2"; "1" is a time before it, "3" the time of
\* the reply in its thread.  conversations.history(latest=ts, limit=1,
\* inclusive=True) returns the latest channel message not after ts.
MessageTs == "2"

conversations_history(latest) ==
    IF latest \in {"2", "3"} THEN <<message>> ELSE <<>>

\* handlers.py:147-245  what the handler does with an event up to the
\* loop that records: it returns early, an exception takes it to the
\* except clause at handlers.py:276, or it has the pairs to record
Skipped == [stage |-> "skipped"]

Excepted == [stage |-> "raised"]

Recording(poster_name, mentioned_names) ==
    [stage           |-> "record",
     poster_name     |-> poster_name,
     mentioned_names |-> mentioned_names,
     pairs           |-> _generate_all_pairs(<<poster_name>> \o mentioned_names)]

PlanWithRegistry(poster_email, mentions, reg) ==
    LET built          == OverwritingMapping(IdentifierList(reg), 1, <<>>)
        identifier_map == built.mapping
    IN  IF poster_email \notin DOMAIN identifier_map THEN Skipped
        ELSE LET poster_name     == reg[identifier_map[poster_email]].name
                 mentioned_names ==
                     _get_valid_mentioned_names(mentions, 1, reg,
                                                identifier_map)
             IN  IF mentioned_names = <<>> THEN Skipped
                 ELSE Recording(poster_name, mentioned_names)

PlanOf(event) ==
    IF event.reaction # "white_check_mark" THEN Skipped
    ELSE IF Falsy(event.user) THEN Skipped
    ELSE IF Falsy(event.channel) THEN Skipped
    ELSE IF Falsy(event.ts) THEN Skipped
    ELSE IF event.channel # DONUT_CHAT_CHANNEL THEN Skipped
    ELSE LET messages == conversations_history(event.ts)
         IN  IF messages = <<>> THEN Skipped
             ELSE IF messages[1].mentions = <<>> THEN Skipped
             ELSE IF Falsy(messages[1].user) THEN Skipped
             ELSE IF Falsy(get_user_email(messages[1].user)) THEN Skipped
             ELSE IF ~roster.exists THEN Excepted
             ELSE PlanWithRegistry(get_user_email(messages[1].user),
                                   messages[1].mentions,
                                   LoadRows(roster.rows, 1, <<>>))

\* handlers.py:301-350  _strikethrough_pair_in_message: for each mentioned
\* name, the first line holding both names is struck unless it already
\* is.  A line is kept as the lower-cased names it contains.
RECURSIVE Strikethrough(_, _, _, _)
Strikethrough(lines, person1, person2_list, k) ==
    IF k > Len(person2_list) THEN lines
    ELSE LET holding == {i \in DOMAIN lines :
                            /\ Lower(person1) \in lines[i].names
                            /\ Lower(person2_list[k]) \in lines[i].names}
         IN  IF holding = {}
                 THEN Strikethrough(lines, person1, person2_list, k + 1)
                 ELSE Strikethrough(
                          [lines EXCEPT ![SetMin(holding)].struck = TRUE],
                          person1, person2_list, k + 1)

\* the rows append_to_history(person1, person2, path) adds for the pairs
\* of handlers.py:243-245, no timestamp being passed
RowsOf(pairs) ==
    [k \in DOMAIN pairs |->
        NewRow([person1 |-> pairs[k][1], person2 |-> pairs[k][2],
                slack_ts |-> None])]

\* the file after an append that raised: untouched if the read or the open
\* failed, left empty by open() if the write failed
AfterFailedAppend(f) == {f, FileOf(<<>>)}

handle_reaction(event) ==
    /\ events < MaxEvents
    /\ events' = events + 1
    /\ LET plan == PlanOf(event)
       IN  IF plan.stage # "record"
             THEN UNCHANGED <<history_file, recorded, confirmed, pairings,
                              thread_reply>>
             ELSE LET new == RowsOf(plan.pairs)
                  IN  \/ /\ history_file' = FileOf(history_file.rows \o new)
                         /\ recorded' = recorded \o new
                         /\ confirmed' = confirmed \cup {MessageTs}
                         /\ pairings' = Strikethrough(pairings,
                                            plan.poster_name,
                                            plan.mentioned_names, 1)
                         /\ thread_reply' = IF thread_reply = "none"
                                                THEN "none" ELSE "recorded"
                      \/ \E k \in DOMAIN new :
                           LET done == SubSeq(new, 1, k - 1)
                           IN  /\ history_file' \in AfterFailedAppend(
                                      IF k = 1 THEN history_file
                                      ELSE FileOf(history_file.rows \o done))
                               /\ recorded' = recorded \o done
                               /\ UNCHANGED <<confirmed, pairings,
                                              thread_reply>>
    /\ UNCHANGED <<message, roster, pc, call, rows, calls, last, serial>>

\* the events Slack can deliver
Events ==
    [reaction : {"white_check_mark", "thumbsup"},
     user     : {"", "U1"},
     channel  : {"", DONUT_CHAT_CHANNEL, "general"},
     ts       : {"", "1", "2", "3"}]

\* the messages a user can have posted
Messages ==
    [ts       : {MessageTs},
     user     : {None, "U1", "U2", "U3", "U4"},
     mentions : SeqsUpTo(MentionIds, MaxMentions)]

\* the pairings message /makedonuts posts for the roster
PostedPairings ==
    <<[names |-> {"ann", "bob"}, struck |-> FALSE],
      [names |-> {"cat", "dan"}, struck |-> FALSE]>>

ReactionIdle ==
    /\ message = [ts |-> MessageTs, user |-> None, mentions |-> <<>>]
    /\ thread_reply = "none"
    /\ pairings = <<>>
    /\ confirmed = {}
    /\ events = 0

\* handlers.py:32-59  what /makedonuts sent
NoResponse == [kind |-> "none"]

\* client.chat_postMessage(channel=DONUT_CHAT_CHANNEL, text=text)
Posted(text) == [kind |-> "posted", text |-> text]

\* say(f"Error generating pairings: {e}")
Said(exc) == [kind |-> "error", exc |-> exc]

\* handlers.py:45-48  the text: the number of groups, and one line per
\* group from "for person1, person2 in pairs", which raises ValueError at
\* the first group that is not a two-tuple
FormatMessage(pairs) ==
    IF \E group \in pairs : Len(group) # 2
        THEN Said("ValueError")
        ELSE Posted([count |-> Cardinality(pairs),
                     lines |-> {<<group[1].name, group[2].name>> :
                                   group \in pairs}])

\* handlers.py:32-59  handle_makedonuts: parse_registry(REGISTRY_PATH),
\* parse_history(registry, HISTORY_PATH), make_assignment, the message;
\* every exception ends in the error reply (handlers.py:57-59)
handle_makedonuts ==
    /\ response = NoResponse
    /\ IF ~roster.exists
       THEN /\ response' = Said("FileNotFoundError")
            /\ UNCHANGED solverVars
       ELSE LET reg   == LoadRows(roster.rows, 1, <<>>)
                built == StrictMapping(IdentifierList(reg), 1, <<>>)
            IN  /\ registry' = reg
                /\ IF built.kind = "raised"
                   THEN /\ response' = Said(built.exc)
                        /\ UNCHANGED <<history, meeting_counts, graph,
                                       matching, unmatched_id, outcome>>
                   ELSE IF ~history_file.exists
                   THEN /\ response' = Said("FileNotFoundError")
                        /\ UNCHANGED <<history, meeting_counts, graph,
                                       matching, unmatched_id, outcome>>
                   ELSE LET past == ResolveRows(history_file.rows, 1,
                                                built.mapping, <<>>)
                        IN  /\ history' = past
                            /\ Assignment(reg, past)
                            /\ response' =
                                   IF outcome'.kind = "raised"
                                       THEN Said(outcome'.exc)
                                       ELSE FormatMessage(outcome'.groups)

\* the files a /makedonuts command finds: the team's roster cut after any
\* number of people, or a roster listing its first person twice; a history
\* of a few rows naming people of the team by name or email
TeamRosters ==
    {SubSeq(TeamRoster, 1, n) : n \in 0..Len(TeamRoster)}
        \cup {<<TeamRoster[1], TeamRoster[1]>>}

MeetingRows == [1..2 -> {"Ann", "Bob", "cat@ucla.edu"}]

CommandIdle == response = NoResponse

StoreIdle ==
    /\ history_file = MissingFile
    /\ pc = [p \in Procs |-> "idle"]
    /\ call = [p \in Procs |-> NoCall]
    /\ rows = [p \in Procs |-> <<>>]
    /\ recorded = <<>>
    /\ calls = 0
    /\ last = NoneEnded
    /\ serial = TRUE

SolverInit ==
    /\ \E n \in 0..MaxN :
        /\ registry = RegistryOfSize(n)
        /\ history \in ShortHistories(n) \cup DenseHistories(n)
    /\ meeting_counts = <<>>
    /\ graph = [nodes |-> {}, weight |-> <<>>]
    /\ matching = {}
    /\ unmatched_id = None
    /\ outcome = NotCalled
    /\ RegistryIdle
    /\ StoreIdle
    /\ HistoryIdle
    /\ ReactionIdle
    /\ CommandIdle

RegistryInit ==
    /\ roster \in {MissingFile} \cup
                  {FileOf(content) : content \in SeqsUpTo(RosterRows, MaxRoster)}
    /\ loaded = NotCalled
    /\ identifier_to_id = NotCalled
    /\ mapping = NotCalled
    /\ SolverIdle
    /\ StoreIdle
    /\ HistoryIdle
    /\ ReactionIdle
    /\ CommandIdle

StoreInit ==
    /\ history_file \in {MissingFile, FileOf(<<>>)}
    /\ pc = [p \in Procs |-> "idle"]
    /\ call = [p \in Procs |-> NoCall]
    /\ rows = [p \in Procs |-> <<>>]
    /\ recorded = <<>>
    /\ calls = 0
    /\ last = NoneEnded
    /\ serial = TRUE
    /\ SolverIdle
    /\ RegistryIdle
    /\ HistoryIdle
    /\ ReactionIdle
    /\ CommandIdle

\* main.py:39-42  the roster file and the history file given to the run
HistoryInit ==
    /\ roster \in {MissingFile} \cup
                  {FileOf(content) : content \in SeqsUpTo(PeopleRows, MaxPeople)}
    /\ history_csv \in {MissingFile} \cup
                  {FileOf(content) : content \in SeqsUpTo(HistoryRows, MaxHistRows)}
    /\ loaded = NotCalled
    /\ identifier_to_id = NotCalled
    /\ mapping = NotCalled
    /\ past_meetings = NotCalled
    /\ SolverIdle
    /\ StoreIdle
    /\ ReactionIdle
    /\ CommandIdle

\* the bot is running: a roster file, the history file, one message in the
\* donut channel, with or without the bot's reply and a pairings message
ReactionInit ==
    /\ roster \in {MissingFile, FileOf(TeamRoster)}
    /\ history_file \in {MissingFile, FileOf(<<>>)}
    /\ message \in Messages
    /\ thread_reply \in {"none", "prompt"}
    /\ pairings \in {<<>>, PostedPairings}
    /\ confirmed = {}
    /\ events = 0
    /\ pc = [p \in Procs |-> "idle"]
    /\ call = [p \in Procs |-> NoCall]
    /\ rows = [p \in Procs |-> <<>>]
    /\ recorded = <<>>
    /\ calls = 0
    /\ last = NoneEnded
    /\ serial = TRUE
    /\ loaded = NotCalled
    /\ identifier_to_id = NotCalled
    /\ mapping = NotCalled
    /\ SolverIdle
    /\ HistoryIdle
    /\ CommandIdle

MakedonutsInit ==
    /\ roster \in {MissingFile} \cup {FileOf(content) : content \in TeamRosters}
    /\ history_file \in {MissingFile} \cup
           {FileOf(content) : content \in SeqsUpTo(MeetingRows, MaxHistRows)}
    /\ response = NoResponse
    /\ pc = [p \in Procs |-> "idle"]
    /\ call = [p \in Procs |-> NoCall]
    /\ rows = [p \in Procs |-> <<>>]
    /\ recorded = <<>>
    /\ calls = 0
    /\ last = NoneEnded
    /\ serial = TRUE
    /\ loaded = NotCalled
    /\ identifier_to_id = NotCalled
    /\ mapping = NotCalled
    /\ SolverIdle
    /\ HistoryIdle
    /\ ReactionIdle

vars == <<solverVars, registryVars, storeVars, historyVars, reactionVars,
          commandVars>>

SolverNext == make_assignment /\ UNCHANGED <<registryVars, storeVars, historyVars, reactionVars, commandVars>>

SpecSolver == SolverInit /\ [][SolverNext]_vars

RegistryNext ==
    \/ parse_registry /\ UNCHANGED <<solverVars, storeVars, historyVars, reactionVars, commandVars>>
    \/ _build_identifier_mapping /\ UNCHANGED <<solverVars, storeVars, historyVars, reactionVars, commandVars>>
    \/ handlers_build_identifier_mapping /\ UNCHANGED <<solverVars, storeVars, historyVars, reactionVars, commandVars>>

SpecRegistry == RegistryInit /\ [][RegistryNext]_vars

StoreNext ==
    \E p \in Procs :
        \/ append_call(p) /\ UNCHANGED <<solverVars, registryVars, historyVars, reactionVars, commandVars>>
        \/ append_read(p) /\ UNCHANGED <<solverVars, registryVars, historyVars, reactionVars, commandVars>>
        \/ append_open(p) /\ UNCHANGED <<solverVars, registryVars, historyVars, reactionVars, commandVars>>
        \/ append_write(p) /\ UNCHANGED <<solverVars, registryVars, historyVars, reactionVars, commandVars>>
        \/ append_fail(p) /\ UNCHANGED <<solverVars, registryVars, historyVars, reactionVars, commandVars>>
        \/ get_history_size_call(p) /\ UNCHANGED <<solverVars, registryVars, historyVars, reactionVars, commandVars>>
        \/ history_contains_ts_call(p) /\ UNCHANGED <<solverVars, registryVars, historyVars, reactionVars, commandVars>>

SpecStore == StoreInit /\ [][StoreNext]_vars

HistoryNext ==
    \/ parse_registry /\ UNCHANGED <<solverVars, storeVars, historyVars, reactionVars, commandVars>>
    \/ parse_history /\ UNCHANGED <<solverVars, storeVars, reactionVars, commandVars>>

SpecHistory == HistoryInit /\ [][HistoryNext]_vars

ReactionNext ==
    \E event \in Events :
        handle_reaction(event)
            /\ UNCHANGED <<solverVars, historyVars, commandVars, loaded,
                           identifier_to_id, mapping>>

SpecReaction == ReactionInit /\ [][ReactionNext]_vars

MakedonutsNext ==
    handle_makedonuts
        /\ UNCHANGED <<registryVars, storeVars, historyVars, reactionVars>>

SpecMakedonuts == MakedonutsInit /\ [][MakedonutsNext]_vars

(***************************************************************************)
(* Properties of make_assignment                                           *)
(***************************************************************************)
Size == Cardinality(DOMAIN registry)

Called == outcome.kind # "not_called"

\* occurrences of a person in the returned groups, as (group, position)
Occurrences(person) ==
    {gk \in UNION {{<<g, k>> : k \in DOMAIN g} : g \in outcome.groups} :
        gk[1][gk[2]] = person}

\* number of history entries naming u and v, in either order
PastMeetings(u, v) ==
    Cardinality({i \in DOMAIN history : history[i] \in {<<u, v>>, <<v, u>>}})

PastCost(m) == SumOver(m, [p \in m |-> PastMeetings(p[1], p[2])])

IsMatchingOver(m, ids) ==
    /\ \A p \in m : p[1] \in ids /\ p[2] \in ids /\ p[1] # p[2]
    /\ \A p, q \in m : p # q => {p[1], p[2]} \cap {q[1], q[2]} = {}

\* C1: for a registry of n >= 2 people make_assignment returns groups that
\* partition the registry: every registered person occurs in exactly one
\* group at exactly one position, and every member of a group is registered.
C1_Partition ==
    (Called /\ Size >= 2) =>
        /\ outcome.kind = "returned"
        /\ \A i \in DOMAIN registry :
               Cardinality(Occurrences(registry[i])) = 1
        /\ \A g \in outcome.groups : Range(g) \subseteq Range(registry)

C1_Witness ==
    /\ outcome.kind = "returned"
    /\ Size = 5
    /\ Len(history) = 1
    /\ Cardinality(outcome.groups) = 2

\* C2: for n >= 2, every returned group has size 2 when n is even; when n
\* is odd exactly one group has size 3 and all the others size 2, and the
\* matching left exactly one person unmatched.
C2_GroupSizes ==
    (Called /\ Size >= 2) =>
        /\ outcome.kind = "returned"
        /\ \A g \in outcome.groups : Len(g) \in {2, 3}
        /\ Cardinality({g \in outcome.groups : Len(g) = 3}) = Size % 2
        /\ Cardinality(DOMAIN registry \ MatchedIds(matching)) = Size % 2

C2_Witness ==
    /\ outcome.kind = "returned"
    /\ Size = 5
    /\ \E g, h \in outcome.groups : Len(g) = 3 /\ Len(h) = 2
    /\ \E u, v \in DOMAIN registry : u # v /\ PastMeetings(u, v) = 2

\* the least total count of a matching of k pairs among the ids of S,
\* count being the table of past meetings: the smallest id of S is either
\* paired with some other id or left out
RECURSIVE LeastCost(_, _, _)
LeastCost(S, k, count) ==
    IF k = 0 THEN 0
    ELSE LET u    == SetMin(S)
             rest == S \ {u}
         IN  SetMin({count[<<u, v>>] + LeastCost(rest \ {v}, k - 1, count) :
                        v \in rest}
                    \cup (IF Cardinality(rest) >= 2 * k
                              THEN {LeastCost(rest, k, count)} ELSE {}))

\* C3: the matching make_assignment computes has floor(n/2) pairs and its
\* total past-meeting count is at most that of every other matching of
\* floor(n/2) pairs over the registered ids.
C3_Optimal ==
    Called =>
        /\ IsMatchingOver(matching, DOMAIN registry)
        /\ Cardinality(matching) = Size \div 2
        /\ LET count == [e \in Combinations2(DOMAIN registry) |->
                            PastMeetings(e[1], e[2])]
               mine  == PastCost(matching)
           IN  mine <= LeastCost(DOMAIN registry, Size \div 2, count)

\* the optimum is forced to repeat a meeting although some pairs never met
C3_Witness ==
    /\ Called
    /\ Size >= 4
    /\ PastCost(matching) >= 1
    /\ \E u, v \in DOMAIN registry : u # v /\ PastMeetings(u, v) = 0
    /\ \E o \in MatchingsOf(DOMAIN registry, Combinations2(DOMAIN registry)) :
           Cardinality(o) = Size \div 2 /\ PastCost(o) > PastCost(matching)

\* combined past-meeting count of a matched pair and the unmatched person
CombinedCost(p, left) ==
    PastMeetings(p[1], p[2]) + PastMeetings(p[1], left)
        + PastMeetings(p[2], left)

\* C8: for an odd registry of three or more people the unmatched person
\* joins a matched pair of minimal count(u,v) + count(u,leftover) +
\* count(v,leftover); that pair becomes the triplet (u, v, leftover) and
\* every other matched pair is returned unchanged as a group of two.
C8_TripletChoice ==
    (Called /\ Size % 2 = 1 /\ Size >= 3) =>
        /\ outcome.kind = "returned"
        /\ DOMAIN registry \ MatchedIds(matching) = {unmatched_id}
        /\ \E p \in matching :
            /\ \A q \in matching :
                   CombinedCost(p, unmatched_id) <= CombinedCost(q, unmatched_id)
            /\ outcome.groups =
                   {<<registry[p[1]], registry[p[2]], registry[unmatched_id]>>}
                   \cup {<<registry[q[1]], registry[q[2]]>> :
                            q \in matching \ {p}}

\* two matched pairs of different combined cost, the cheaper one having met
C8_Witness ==
    /\ outcome.kind = "returned"
    /\ Size = 5
    /\ \E p, q \in matching :
        /\ CombinedCost(p, unmatched_id) < CombinedCost(q, unmatched_id)
        /\ PastMeetings(q[1], q[2]) > PastMeetings(p[1], p[2])
        /\ PastMeetings(p[1], unmatched_id) + PastMeetings(p[2], unmatched_id)
             = PastMeetings(q[1], unmatched_id) + PastMeetings(q[2], unmatched_id)
        /\ <<registry[p[1]], registry[p[2]], registry[unmatched_id]>>
             \in outcome.groups

\* C9: make_assignment on a registry of exactly one person is rejected with
\* an InsufficientRosterError raised before any matching is computed, and
\* returns no group.
C9_Claim ==
    (Called /\ Size = 1) => outcome = Raised("InsufficientRosterError", FALSE)

\* C10: make_assignment on an empty registry returns an empty assignment
\* and raises no error.
C10_EmptyRegistry ==
    (Called /\ Size = 0) => outcome = Returned({})

C10_Witness ==
    /\ Size = 0
    /\ outcome.kind = "returned"
    /\ graph.nodes = {}
    /\ matching = {}


(***************************************************************************)
(* Properties of roster loading                                            *)
(***************************************************************************)
\* rows of exactly two non-empty fields
WellFormedRow(row) == Len(row) = 2 /\ row[1] # "" /\ row[2] # ""

\* two well-formed rows of the roster share a name or an email
RosterSharesIdentifier ==
    /\ roster.exists
    /\ \E i, j \in DOMAIN roster.rows :
        /\ i < j
        /\ WellFormedRow(roster.rows[i]) /\ WellFormedRow(roster.rows[j])
        /\ {roster.rows[i][1], roster.rows[i][2]}
               \cap {roster.rows[j][1], roster.rows[j][2]} # {}

\* one identifier string belongs to two people of the registry
BoundToTwoPeople(reg) ==
    \E i, j \in DOMAIN reg :
        i # j /\ {reg[i].name, reg[i].email} \cap {reg[j].name, reg[j].email} # {}

\* C6: loading a roster in which two rows share a name or an email fails
\* with a duplicate-identifier error and produces no registry, and no
\* registry or identifier mapping is ever obtained in which one identifier
\* is bound to two people.
C6_Claim ==
    /\ (loaded # NotCalled /\ RosterSharesIdentifier) =>
           loaded = Failed("DuplicateIdentifierError")
    /\ loaded.kind = "returned" => ~BoundToTwoPeople(loaded.registry)

\* C7: for every registry parse_registry returns, the identifier mapping is
\* built and resolves the name and the email of every person to that
\* person's id, also when the name and the email are the same string.
C7_Claim ==
    (loaded.kind = "returned" /\ identifier_to_id # NotCalled) =>
        /\ identifier_to_id.kind = "returned"
        /\ \A i \in DOMAIN loaded.registry :
            LET m == identifier_to_id.mapping
                p == loaded.registry[i]
            IN  /\ p.name \in DOMAIN m /\ m[p.name] = i
                /\ p.email \in DOMAIN m /\ m[p.email] = i

\* the people of a list of roster rows, numbered from 0 in list order
PeopleOf(list) ==
    [i \in 0..(Len(list) - 1) |-> NewPerson(list[i + 1][1], list[i + 1][2])]

\* C15: every roster row that does not consist of exactly two non-empty
\* fields (a row of three fields, a row with an empty name or email) is
\* skipped and contributes no person, while the valid rows before and after
\* it are still loaded.
C15_Claim ==
    loaded.kind = "returned" =>
        loaded.registry = PeopleOf(SelectSeq(roster.rows, WellFormedRow))

\* C18: parse_registry assigns ids sequentially from 0 in the order of the
\* accepted rows: the ids of a registry of n people are 0..n-1, the k-th
\* accepted row has id k-1, and a skipped row consumes no id.
C18_SequentialIds ==
    loaded.kind = "returned" =>
        LET accepted == SelectSeq(roster.rows, AcceptsRow)
        IN  /\ DOMAIN loaded.registry = 0..(Len(accepted) - 1)
            /\ \A k \in 1..Len(accepted) :
                   loaded.registry[k - 1] =
                       NewPerson(accepted[k][1], accepted[k][2])

\* a skipped row stands between two accepted rows, which get ids 0 and 1
C18_Witness ==
    /\ loaded.kind = "returned"
    /\ Len(roster.rows) = 3
    /\ AcceptsRow(roster.rows[1])
    /\ ~AcceptsRow(roster.rows[2])
    /\ AcceptsRow(roster.rows[3])
    /\ DOMAIN loaded.registry = {0, 1}
    /\ loaded.registry[1] = NewPerson(roster.rows[3][1], roster.rows[3][2])

(***************************************************************************)
(* Properties of the history file                                          *)
(***************************************************************************)
Occurs(row, list) == Cardinality({i \in DOMAIN list : list[i] = row})

NoAppendInProgress == \A p \in Procs : pc[p] = "idle"

\* C4: an append whose correlation token is already in the store is a
\* no-op that creates no second row: the file never holds two rows with the
\* same token, and once no call is running its size is at most the number
\* of token-less calls plus the number of distinct tokens appended.
C4_Claim ==
    /\ \A i, j \in DOMAIN history_file.rows :
          (i < j /\ Len(history_file.rows[i]) = 3
                 /\ Len(history_file.rows[j]) = 3)
             => history_file.rows[i][3] # history_file.rows[j][3]
    /\ NoAppendInProgress =>
          get_history_size(history_file) <=
              Cardinality({i \in DOMAIN recorded : Len(recorded[i]) = 2})
            + Cardinality({recorded[i][3] :
                              i \in {k \in DOMAIN recorded : Len(recorded[k]) = 3}})

\* C5: no append is lost when append_to_history calls overlap: once no call
\* is running, the file holds the row of every call that returned, as many
\* times as it was appended.
C5_Claim ==
    NoAppendInProgress =>
        \A i \in DOMAIN recorded :
            Occurs(recorded[i], history_file.rows) >= Occurs(recorded[i], recorded)

\* no two rows of the calls that returned carry the same token
NoDuplicateToken ==
    \A i, j \in DOMAIN recorded :
        (i < j /\ Len(recorded[i]) = 3 /\ Len(recorded[j]) = 3)
            => recorded[i][3] # recorded[j][3]

\* C21: after any sequence of successful append_to_history calls without
\* a duplicate token, made one after the other, the log read back equals
\* the sequence of appended entries in append order (each append added one
\* entry at the end and left the earlier ones as they were), and
\* get_history_size equals their number.
C21_AppendOnly ==
    (serial /\ NoAppendInProgress /\ NoDuplicateToken) =>
        /\ history_file.rows = recorded
        /\ get_history_size(history_file) = Len(recorded)

\* three appends, one after the other
C21_Witness ==
    /\ serial
    /\ NoAppendInProgress
    /\ NoDuplicateToken
    /\ Len(recorded) = 3
    /\ recorded[1] # recorded[2]
    /\ history_file.rows = recorded

\* C22: an append_to_history call that fails, at whatever step, leaves the
\* log exactly as it was before the call.  The failing call is taken after
\* appends that ran one after the other, so the log before it is the
\* sequence of the entries appended so far.
C22_Claim ==
    [][(serial /\ ~serial' /\ last'.io_failed)
          => (history_file'.rows = recorded)]_vars

\* C23: a read of the history made while an append_to_history is in
\* progress observes the log as it was before the append or as it is
\* after it, never an empty or partially written log.  The read is a
\* get_history_size call that did not fail; the appends ran one after the
\* other, so the log before the one in progress is the sequence of the
\* entries appended so far and the log after it has one entry more.
C23_Claim ==
    [][(serial /\ pc' = pc /\ calls' = calls + 1
            /\ last'.op = "get_history_size" /\ ~last'.io_failed)
          => (last'.value \in {Len(recorded), Len(recorded) + 1})]_vars

\* some appended entry carries the token
Appended(ts) ==
    \E i \in DOMAIN recorded : Len(recorded[i]) = 3 /\ recorded[i][3] = ts

\* C24: history_contains_ts(t) is true exactly when some entry of the log
\* carries the token t as its third field: false for a token never
\* appended, true once an append with slack_ts = t has returned and after
\* every later append (the appends being made one after the other); and
\* a history_contains_ts or get_history_size call never modifies the log.
C24_ContainsToken ==
    /\ [](\A ts \in Tokens \ {None} :
            /\ history_contains_ts(history_file, ts) <=>
                   (\E i \in DOMAIN history_file.rows :
                       /\ Len(history_file.rows[i]) = 3
                       /\ history_file.rows[i][3] = ts)
            /\ (serial /\ NoAppendInProgress) =>
                   (history_contains_ts(history_file, ts) <=> Appended(ts)))
    /\ [][(pc' = pc /\ calls' = calls + 1)
             => (history_file' = history_file)]_vars

\* a token was appended, then an entry without it; a query saw the token
C24_Witness ==
    /\ serial
    /\ NoAppendInProgress
    /\ Len(recorded) = 2
    /\ Len(recorded[1]) = 3
    /\ recorded[1][3] = "t1"
    /\ Len(recorded[2]) = 2
    /\ last.op = "history_contains_ts"
    /\ last.kind = "returned"
    /\ last.value = TRUE

\* C26: the graph given to the matcher has the registered ids as its only
\* vertices and exactly one edge per unordered pair of distinct ids, of
\* weight 0 for a pair that never met and -count for a pair that met count
\* times; it has no self-loop, also when the history holds a meeting of a
\* person with themselves.
C26_Claim ==
    Called =>
        /\ graph.nodes = DOMAIN registry
        /\ DOMAIN graph.weight = Combinations2(DOMAIN registry)
        /\ \A e \in DOMAIN graph.weight :
               /\ e[1] # e[2]
               /\ graph.weight[e] = 0 - PastMeetings(e[1], e[2])

\* C27: the entries one handle_reaction call appends each name two distinct
\* people, and no unordered pair is appended twice by the same call.
C27_Claim ==
    [][\A i \in (Len(recorded) + 1)..Len(recorded') :
          /\ recorded'[i][1] # recorded'[i][2]
          /\ \A j \in (i + 1)..Len(recorded') :
                 {recorded'[i][1], recorded'[i][2]}
                     # {recorded'[j][1], recorded'[j][2]}]_vars

\* C28: when make_assignment returned groups for a registry of two or more
\* people, /makedonuts posted a pairings message that lists every group,
\* the triplet included, and did not send the error reply.
C28_Claim ==
    (response # NoResponse /\ Size >= 2 /\ outcome.kind = "returned") =>
        /\ response.kind = "posted"
        /\ response.text.count = Cardinality(outcome.groups)
        /\ \A group \in outcome.groups :
               \E line \in response.text.lines :
                   {line[k] : k \in DOMAIN line}
                       = {group[k].name : k \in DOMAIN group}

\* the poster of the message has an email that is an identifier of the
\* registry
PosterResolves ==
    /\ roster.exists
    /\ ~Falsy(message.user)
    /\ ~Falsy(get_user_email(message.user))
    /\ \E id \in DOMAIN LoadRows(roster.rows, 1, <<>>) :
           get_user_email(message.user)
               \in {LoadRows(roster.rows, 1, <<>>)[id].name,
                    LoadRows(roster.rows, 1, <<>>)[id].email}

\* some mention of the message names a registered person
MentionResolves ==
    /\ roster.exists
    /\ LET reg == LoadRows(roster.rows, 1, <<>>)
       IN  _get_valid_mentioned_names(message.mentions, 1, reg,
               OverwritingMapping(IdentifierList(reg), 1, <<>>).mapping)
               # <<>>

\* C29: a handle_reaction call changes the history only if the reaction is
\* white_check_mark, the event has a user, a channel and a timestamp, the
\* channel is the donut channel, the message reacted to exists, its
\* poster's email resolves in the registry and one of its mentions names a
\* registered person.
C29_Claim ==
    [][\A event \in Events :
          (/\ handle_reaction(event)
           /\ (history_file' # history_file \/ recorded' # recorded))
          => /\ event.reaction = "white_check_mark"
             /\ ~Falsy(event.user)
             /\ ~Falsy(event.channel)
             /\ ~Falsy(event.ts)
             /\ event.channel = DONUT_CHAT_CHANNEL
             /\ event.ts = message.ts
             /\ PosterResolves
             /\ MentionResolves]_vars

(***************************************************************************)
(* C11: a failure while the history file is read or written always         *)
(* propagates: no call of append_to_history, history_contains_ts or        *)
(* get_history_size returns a normal result after its read or write        *)
(* failed.                                                                 *)
(***************************************************************************)
C11_Claim == last.io_failed => last.kind = "raised"

(***************************************************************************)
(* More properties of make_assignment                                      *)
(***************************************************************************)
\* the id under which a returned person is registered
IdOf(person) == CHOOSE i \in DOMAIN registry : registry[i] = person

\* a group in which two members have a recorded past meeting
RepeatsMeeting(g) ==
    \E i, j \in DOMAIN g :
        i < j /\ PastMeetings(IdOf(g[i]), IdOf(g[j])) >= 1

\* some perfect matching of the registry pairs only people who never met
FreshPerfectMatchingExists ==
    LET count == [e \in Combinations2(DOMAIN registry) |->
                     PastMeetings(e[1], e[2])]
    IN  Size % 2 = 0 /\ LeastCost(DOMAIN registry, Size \div 2, count) = 0

\* C12: for a registry of even size, whenever some perfect matching pairs
\* only people who never met, no returned group contains two people with a
\* recorded past meeting.
C12_NoAvoidableRepeat ==
    (Called /\ Size % 2 = 0 /\ FreshPerfectMatchingExists) =>
        /\ outcome.kind = "returned"
        /\ \A g \in outcome.groups : ~RepeatsMeeting(g)

\* four people, two of whom have met, paired without a repeat
C12_Witness ==
    /\ outcome.kind = "returned"
    /\ Size = 4
    /\ FreshPerfectMatchingExists
    /\ \E u, v \in DOMAIN registry : u # v /\ PastMeetings(u, v) >= 1
    /\ Cardinality(outcome.groups) = 2
    /\ \A g \in outcome.groups : ~RepeatsMeeting(g)

\* the ids of the members of a group
MemberIds(g) == {IdOf(g[k]) : k \in DOMAIN g}

\* the scenario of C13: Alice, Bob, Charlie, Diana and Eve are registered
\* in this order under ids 0..4; Charlie and Diana have met once
FiveWithOneMeeting == Size = 5 /\ history = <<(<<2, 3>>)>>

C14_TwoPeople ==
    (Called /\ Size = 2) =>
        /\ outcome.kind = "returned"
        /\ Cardinality(outcome.groups) = 1
        /\ \A g \in outcome.groups : Len(g) = 2 /\ MemberIds(g) = {0, 1}

\* the two have already met twice and are paired again
C14_Witness ==
    /\ outcome.kind = "returned"
    /\ Size = 2
    /\ PastMeetings(0, 1) = 2
    /\ Cardinality(outcome.groups) = 1

\* C17: get_past_meeting_counts maps each unordered pair, keyed as
\* (smaller id, larger id), to the number of history entries naming that
\* pair in either order; pairs that never occur are not keys, and every
\* count is at least 1.
C17_Counts ==
    Called =>
        /\ \A key \in DOMAIN meeting_counts :
               /\ key[1] <= key[2]
               /\ meeting_counts[key] = PastMeetings(key[1], key[2])
               /\ meeting_counts[key] >= 1
        /\ \A i \in DOMAIN history :
               \E key \in DOMAIN meeting_counts :
                   history[i] \in {key, <<key[2], key[1]>>}

\* an entry (u, v) and an entry (v, u) are counted under the one key
C17_Witness ==
    /\ Called
    /\ \E i, j \in DOMAIN history :
           /\ history[i][1] < history[i][2]
           /\ history[j] = <<history[i][2], history[i][1]>>
           /\ history[i] \in DOMAIN meeting_counts
           /\ meeting_counts[history[i]] = 2
    /\ \E u, v \in DOMAIN registry :
           u < v /\ <<u, v>> \notin DOMAIN meeting_counts

(***************************************************************************)
(* Properties of history loading                                           *)
(***************************************************************************)
\* the string is the name or the email of a registered person
Registered(identifier) ==
    \E i \in DOMAIN loaded.registry :
        identifier \in {loaded.registry[i].name, loaded.registry[i].email}

\* the id of the person a registered string belongs to
ResolvedId(identifier) ==
    CHOOSE i \in DOMAIN loaded.registry :
        identifier \in {loaded.registry[i].name, loaded.registry[i].email}

\* a history row (two identifiers and possibly a token) naming two
\* registered people
NamesRegisteredPeople(row) ==
    /\ Len(row) \in {2, 3}
    /\ Registered(row[1])
    /\ Registered(row[2])

\* C16: a history row naming an unregistered identifier is skipped; the
\* pairs parse_history returns are exactly the resolved pairs of the rows
\* whose two identifiers are both registered, in file order, and every id
\* returned is a key of the registry.
C16_ResolvedPairs ==
    past_meetings.kind = "returned" =>
        LET kept == SelectSeq(history_csv.rows, NamesRegisteredPeople)
        IN  /\ past_meetings.pairs =
                   [k \in 1..Len(kept) |->
                       <<ResolvedId(kept[k][1]), ResolvedId(kept[k][2])>>]
            /\ \A k \in DOMAIN past_meetings.pairs :
                   /\ past_meetings.pairs[k][1] \in DOMAIN loaded.registry
                   /\ past_meetings.pairs[k][2] \in DOMAIN loaded.registry

\* of two rows naming registered names, one also names an unregistered
\* identifier and is skipped, the other is returned
C16_Witness ==
    /\ past_meetings.kind = "returned"
    /\ Len(history_csv.rows) = 2
    /\ \E k \in 1..2 :
           /\ Len(history_csv.rows[k]) = 2
           /\ Registered(history_csv.rows[k][1])
           /\ ~Registered(history_csv.rows[k][2])
    /\ Len(past_meetings.pairs) = 1
    /\ past_meetings.pairs[1][1] # past_meetings.pairs[1][2]

\* C20: loading from a roster file or a history file that does not exist
\* fails with a not-found error and returns no registry and no meeting
\* list; parse_history never treats a missing history file as an empty
\* history.
C20_Claim ==
    /\ (loaded # NotCalled /\ ~roster.exists) =>
           loaded = Failed("FileNotFoundError")
    /\ (past_meetings # NotCalled /\ ~history_csv.exists) =>
           past_meetings = Failed("FileNotFoundError")

(***************************************************************************)
(* Properties of the reaction handler                                      *)
(***************************************************************************)
\* C19: for any sequence of reaction_added events, one confirmation is
\* recorded at most once: once the pairs of a message have been recorded,
\* further white_check_mark reactions on that message add no history row.
C19_Claim ==
    [][(MessageTs \in confirmed) => (recorded' = recorded)]_vars

====
